---- MODULE Spec2Model ----
(***************************************************************************)
(* A model of the Real.discount coupon scraper (couponscraper_wsap):       *)
(* main.py (CouponScraper), utils.py (cache, categorizer, composer) and    *)
(* config.py (category rules, templates).                                  *)
(*                                                                         *)
(* Python strings that the code inspects character by character (titles,   *)
(* descriptions, keywords) are sequences of one-character strings.  URLs   *)
(* are sequences of tokens (scheme, host labels, path, query parts); the   *)
(* code only ever tests or rewrites them at token boundaries.              *)
(***************************************************************************)
EXTENDS Integers, Sequences, FiniteSets, TLC

VARIABLES
  pc,        \* where the process is: "idle", "scrape", "process", "exited"
  exit,      \* why the process ended: "none", "interrupt", "KeyError"
  driver,    \* the Selenium session: "open" or "quit"
  env,       \* the names of the environment variables that are set
  cache,     \* self.cache: url -> first-seen timestamp
  store,     \* cache/processed_courses.json: [exists, doc]
  group_ids, \* self.group_ids: category -> destination handle
  world,     \* what the renderer shows in the current run: [listing, net]
  idx,       \* number of <li> elements of the listing already handled
  courses,   \* the local list `courses` of scrape_courses / its return value
  course,    \* what parse_course_element returned for the last element
  gets,      \* the renderer's log: driver.get calls made for the last element
  sent,      \* the notifier's log: the messages handed to pywhatkit
  run,       \* number of runs started; also the clock of datetime.now()
  scrape,    \* the last scrape_courses call: "none", "running", "returned",
             \* "RenderFailure", "SaveFailure"
  snap,      \* the cache and the store as they were when the run started
  writes,    \* number of writes of the store in the current run
  script,    \* the pages the site shows at every run, when it never changes
  sameInput, \* this run renders the pages an earlier run rendered whose
             \* scrape_courses returned normally
  catIn,     \* categorizer on its own: [title, desc, rules]
  catOut,    \* its result
  fmtIn,     \* composer on its own: the list of courses
  fmtOut     \* its result

vars == << pc, exit, driver, env, cache, store, group_ids, world, idx,
           courses, course, gets, sent, run, scrape, snap, writes,
           script, sameInput, catIn, catOut, fmtIn, fmtOut >>

pipeVars == << pc, exit, driver, env, cache, store, group_ids, world, idx,
               courses, course, gets, sent, run, scrape, snap, writes,
               script, sameInput >>
catVars == << catIn, catOut >>
fmtVars == << fmtIn, fmtOut >>

\* Python's None where a string or a url is expected, where a category name
\* is expected, and where a course dict is expected
None == << "None" >>
NoMatch == "None"
NoCourse == [none |-> TRUE]

(***************************************************************************)
(* Strings                                                                 *)
(***************************************************************************)
UpperCase == << "A","B","C","D","E","F","G","H","I","J","K","L","M",
                "N","O","P","Q","R","S","T","U","V","W","X","Y","Z" >>
LowerCase == << "a","b","c","d","e","f","g","h","i","j","k","l","m",
                "n","o","p","q","r","s","t","u","v","w","x","y","z" >>

\* str.lower() on one character
LowerChar(c) ==
  IF \E i \in DOMAIN UpperCase : UpperCase[i] = c
  THEN LowerCase[CHOOSE i \in DOMAIN UpperCase : UpperCase[i] = c]
  ELSE c

\* str.lower()
Lower(s) == [i \in DOMAIN s |-> LowerChar(s[i])]

\* Python's `k in s` on strings
IsSubstring(k, s) ==
  \E i \in 0..(Len(s) - Len(k)) : SubSeq(s, i + 1, i + Len(k)) = k

\* str.split(): the maximal runs of non-blank characters, in order
RECURSIVE SplitFrom(_, _, _)
SplitFrom(s, i, word) ==
  IF i > Len(s)
  THEN IF word = << >> THEN << >> ELSE << word >>
  ELSE IF s[i] = " "
       THEN (IF word = << >> THEN << >> ELSE << word >>)
            \o SplitFrom(s, i + 1, << >>)
       ELSE SplitFrom(s, i + 1, Append(word, s[i]))

Split(s) == SplitFrom(s, 1, << >>)

Range(f) == { f[i] : i \in DOMAIN f }

(***************************************************************************)
(* config.py                                                               *)
(***************************************************************************)
\* CATEGORIES, in declared order (a dict keeps insertion order)
CATEGORIES ==
  << [name |-> "personal_development", group_id |-> "PERSONAL_DEV_GROUP",
       keywords |-> <<
          <<"p","e","r","s","o","n","a","l"," ","d","e","v","e","l","o","p","m","e","n","t">>,
          <<"s","o","f","t"," ","s","k","i","l","l","s">>,
          <<"l","e","a","d","e","r","s","h","i","p">>,
          <<"c","o","m","m","u","n","i","c","a","t","i","o","n">> >>],
     [name |-> "cybersecurity", group_id |-> "CYBERSEC_GROUP",
       keywords |-> <<
          <<"c","y","b","e","r","s","e","c","u","r","i","t","y">>,
          <<"s","e","c","u","r","i","t","y">>,
          <<"e","t","h","i","c","a","l"," ","h","a","c","k","i","n","g">>,
          <<"p","e","n","e","t","r","a","t","i","o","n"," ","t","e","s","t","i","n","g">>,
          <<"c","y","b","e","r">> >>],
     [name |-> "crypto", group_id |-> "CRYPTO_GROUP",
       keywords |-> <<
          <<"c","r","y","p","t","o","c","u","r","r","e","n","c","y">>,
          <<"b","l","o","c","k","c","h","a","i","n">>,
          <<"b","i","t","c","o","i","n">>,
          <<"c","r","y","p","t","o">>,
          <<"w","e","b","3">> >>],
     [name |-> "marketing", group_id |-> "MARKETING_GROUP",
       keywords |-> <<
          <<"m","a","r","k","e","t","i","n","g">>,
          <<"d","i","g","i","t","a","l"," ","m","a","r","k","e","t","i","n","g">>,
          <<"s","o","c","i","a","l"," ","m","e","d","i","a"," ","m","a","r","k","e","t","i","n","g">> >>],
     [name |-> "backend", group_id |-> "BACKEND_GROUP",
       keywords |-> <<
          <<"b","a","c","k","e","n","d">>,
          <<"p","y","t","h","o","n">>,
          <<"j","a","v","a">>,
          <<"n","o","d","e","j","s">>,
          <<"p","h","p">>,
          <<"d","a","t","a","b","a","s","e">> >>],
     [name |-> "web_design", group_id |-> "WEBDESIGN_GROUP",
       keywords |-> <<
          <<"w","e","b"," ","d","e","s","i","g","n">>,
          <<"h","t","m","l">>,
          <<"c","s","s">>,
          <<"u","i"," ","d","e","s","i","g","n">> >>],
     [name |-> "design", group_id |-> "DESIGN_GROUP",
       keywords |-> <<
          <<"g","r","a","p","h","i","c"," ","d","e","s","i","g","n">>,
          <<"p","h","o","t","o","s","h","o","p">>,
          <<"i","l","l","u","s","t","r","a","t","o","r">>,
          <<"f","i","g","m","a">> >>],
     [name |-> "fullstack", group_id |-> "FULLSTACK_GROUP",
       keywords |-> <<
          <<"f","u","l","l"," ","s","t","a","c","k">>,
          <<"f","u","l","l","s","t","a","c","k">>,
          <<"m","e","r","n">>,
          <<"m","e","a","n">>,
          <<"w","e","b"," ","d","e","v","e","l","o","p","m","e","n","t">> >>],
     [name |-> "app_development", group_id |-> "APPDEV_GROUP",
       keywords |-> <<
          <<"a","p","p","l","i","c","a","t","i","o","n"," ","d","e","v","e","l","o","p","m","e","n","t">>,
          <<"s","o","f","t","w","a","r","e"," ","d","e","v","e","l","o","p","m","e","n","t">>,
          <<"a","p","p"," ","d","e","v","e","l","o","p","m","e","n","t">> >>],
     [name |-> "mobile", group_id |-> "MOBILE_GROUP",
       keywords |-> <<
          <<"m","o","b","i","l","e"," ","d","e","v","e","l","o","p","m","e","n","t">>,
          <<"a","n","d","r","o","i","d">>,
          <<"i","o","s">>,
          <<"f","l","u","t","t","e","r">>,
          <<"r","e","a","c","t"," ","n","a","t","i","v","e">> >>],
     [name |-> "cloud", group_id |-> "CLOUD_GROUP",
       keywords |-> <<
          <<"c","l","o","u","d"," ","c","o","m","p","u","t","i","n","g">>,
          <<"a","w","s">>,
          <<"a","z","u","r","e">>,
          <<"g","o","o","g","l","e"," ","c","l","o","u","d">>,
          <<"d","e","v","o","p","s">> >>],
     [name |-> "quantum", group_id |-> "QUANTUM_GROUP",
       keywords |-> <<
          <<"q","u","a","n","t","u","m"," ","c","o","m","p","u","t","i","n","g">>,
          <<"q","u","a","n","t","u","m">>,
          <<"q","u","a","n","t","u","m"," ","m","e","c","h","a","n","i","c","s">> >>],
     [name |-> "seo", group_id |-> "SEO_GROUP",
       keywords |-> <<
          <<"s","e","o">>,
          <<"s","e","a","r","c","h"," ","e","n","g","i","n","e"," ","o","p","t","i","m","i","z","a","t","i","o","n">>,
          <<"g","o","o","g","l","e"," ","a","n","a","l","y","t","i","c","s">> >>],
     [name |-> "software", group_id |-> "SOFTWARE_GROUP",
       keywords |-> <<
          <<"s","o","f","t","w","a","r","e">>,
          <<"t","o","o","l","s">>,
          <<"a","p","p","l","i","c","a","t","i","o","n","s">>,
          <<"p","r","o","d","u","c","t","i","v","i","t","y">> >>] >>

(***************************************************************************)
(* utils.categorize_course                                                 *)
(***************************************************************************)
\* any(keyword in title_desc for keyword in data['keywords'])
KeywordHit(rule, title_desc) ==
  \E k \in Range(rule.keywords) : IsSubstring(k, title_desc)

\* any(any(word in keyword for word in title_desc.split()) for keyword ...)
PartialHit(rule, title_desc) ==
  \E k \in Range(rule.keywords) :
     \E word \in Range(Split(title_desc)) : IsSubstring(word, k)

\* the first loop: for category, data in categories.items()
RECURSIVE FirstLoop(_, _, _)
FirstLoop(categories, title_desc, i) ==
  IF i > Len(categories) THEN NoMatch
  ELSE IF KeywordHit(categories[i], title_desc) THEN categories[i].name
  ELSE FirstLoop(categories, title_desc, i + 1)

\* the second loop
RECURSIVE SecondLoop(_, _, _)
SecondLoop(categories, title_desc, i) ==
  IF i > Len(categories) THEN NoMatch
  ELSE IF PartialHit(categories[i], title_desc) THEN categories[i].name
  ELSE SecondLoop(categories, title_desc, i + 1)

\* A categorizer that tries both tests on a rule before moving to the next.
RECURSIVE MergedLoop(_, _, _)
MergedLoop(categories, title_desc, i) ==
  IF i > Len(categories) THEN "other"
  ELSE IF KeywordHit(categories[i], title_desc)
          \/ PartialHit(categories[i], title_desc)
       THEN categories[i].name
       ELSE MergedLoop(categories, title_desc, i + 1)

categorize_merged(title, description, categories) ==
  MergedLoop(categories, Lower(title \o << " " >> \o description), 1)

categorize_course(title, description, categories) ==
  LET title_desc == Lower(title \o << " " >> \o description)
      first == FirstLoop(categories, title_desc, 1)
      second == SecondLoop(categories, title_desc, 1)
  IN  IF first # NoMatch THEN first
      ELSE IF second # NoMatch THEN second
      ELSE "other"

(***************************************************************************)
(* The site, as the renderer shows it                                      *)
(***************************************************************************)
\* 'https://real.discount', the prefix of main.py line 157
Origin == << "https://", "real.discount" >>

PathTokens == { "/go/abc", "/go/zen" }

\* the host labels of a url: what lies between the scheme and the path
Host(url) == SelectSeq(SubSeq(url, 2, Len(url)), LAMBDA t : t \notin PathTokens)
Path(url) == SelectSeq(url, LAMBDA t : t \in PathTokens)

KnownHosts == { << "real.discount" >>, << "www.", "real.discount" >> }

\* The first <a> of a detail page whose href contains 'udemy.com', or None.
DetailLink(path) ==
  IF path = << "/go/abc" >>
  THEN << "https://", "www.", "udemy.com", "/course/hack", "?",
          "couponCode=", "FREE2025", "&", "utm=x" >>
  ELSE None

\* The <li> elements a listing page may hold.  heading: the text of the first
\* h3/h4/h5 (None: no heading); href: the first <a>'s href (None: no <a>);
\* desc: the text of the description element (None: none found);
\* fault: looking up the expiry raises (expiry_elem has no .text).
LiHack == [heading |-> << "H","a","c","k" >>, href |-> << "/go/abc" >>,
           desc |-> None, fault |-> FALSE]
LiZen == [heading |-> << "Z","e","n" >>,
          href |-> << "https://", "www.", "real.discount", "/go/zen" >>,
          desc |-> None, fault |-> FALSE]
LiMenu == [heading |-> None, href |-> << "/go/zen" >>, desc |-> None,
           fault |-> FALSE]
LiOdd == [heading |-> << "Z","e","n" >>, href |-> << "/go/zen" >>,
          desc |-> None, fault |-> TRUE]
Elements == { LiHack, LiZen, LiMenu, LiOdd }

MaxListing == 2
MaxRuns == 2

RECURSIVE SeqsUpTo(_, _)
SeqsUpTo(S, n) ==
  IF n = 0 THEN { << >> }
  ELSE LET shorter == SeqsUpTo(S, n - 1)
       IN  shorter \cup { Append(q, x) : q \in shorter, x \in S }

Listings == SeqsUpTo(Elements, MaxListing)

\* The network as the renderer meets it: "ok": both hosts resolve; "www-only":
\* only www.real.discount resolves; "no-dns": no host resolves; "timeout":
\* driver.get raises another error than ERR_NAME_NOT_RESOLVED.
Nets == { "ok", "www-only", "no-dns", "timeout" }

Worlds == [listing : Listings, net : Nets]

\* driver.get(url): "ok", or the exception it raises
Get(url, net) ==
  CASE net = "timeout" -> "TimeoutException"
    [] net = "no-dns" -> "ERR_NAME_NOT_RESOLVED"
    [] net = "www-only" ->
         IF Host(url) = << "www.", "real.discount" >> THEN "ok"
         ELSE "ERR_NAME_NOT_RESOLVED"
    [] OTHER ->
         IF Host(url) \in KnownHosts THEN "ok" ELSE "ERR_NAME_NOT_RESOLVED"

(***************************************************************************)
(* CouponScraper.parse_course_element                                      *)
(***************************************************************************)
\* coupon_url.startswith('http')
StartsWithHttp(url) == Len(url) > 0 /\ url[1] \in { "https://", "http://" }

\* lines 153-157: the coupon url of an element that has a non-empty href
CouponUrl(href) == IF StartsWithHttp(href) THEN href ELSE Origin \o href

\* coupon_url.replace('real.discount', 'www.real.discount')
RECURSIVE ReplaceHost(_)
ReplaceHost(url) ==
  IF url = << >> THEN << >>
  ELSE IF Head(url) = "real.discount"
       THEN << "www.", "real.discount" >> \o ReplaceHost(Tail(url))
       ELSE << Head(url) >> \o ReplaceHost(Tail(url))

\* lines 169-196: visit the coupon page.  Returns the udemy url found (or
\* None), the value of coupon_url afterwards and the driver.get calls made.
Visit(coupon_url, net) ==
  LET first == Get(coupon_url, net)
      alt == ReplaceHost(coupon_url)
  IN  IF first = "ok"
      THEN [udemy_url |-> DetailLink(Path(coupon_url)),
            coupon_url |-> coupon_url, gets |-> << coupon_url >>]
      ELSE IF first = "ERR_NAME_NOT_RESOLVED"
      THEN \* line 178 reassigns coupon_url before the retry
           [udemy_url |-> IF Get(alt, net) = "ok"
                          THEN DetailLink(Path(alt)) ELSE None,
            coupon_url |-> alt, gets |-> << coupon_url, alt >>]
      ELSE \* raise e, caught at line 194
           [udemy_url |-> None, coupon_url |-> coupon_url,
            gets |-> << coupon_url >>]

Index(s, t) == CHOOSE i \in DOMAIN s : s[i] = t /\ \A j \in 1..(i - 1) : s[j] # t

\* udemy_url.split('couponCode=')[1].split('&')[0]
CouponCode(udemy_url) ==
  IF udemy_url = None \/ "couponCode=" \notin Range(udemy_url) THEN None
  ELSE LET rest == SubSeq(udemy_url, Index(udemy_url, "couponCode=") + 1,
                          Len(udemy_url))
       IN  IF "&" \in Range(rest)
           THEN SubSeq(rest, 1, Index(rest, "&") - 1)
           ELSE rest

\* Whether the <li> is handed to parse_course_element (line 120).
IsCourseElement(element) == element.href # None /\ element.heading # None

\* parse_course_element: the dict it returns, or None
parse_course_element(element, net) ==
  IF element.heading = None \/ element.href = None \/ element.href = << >>
  THEN NoCourse
  ELSE LET title == element.heading
           description == IF element.desc # None THEN element.desc ELSE title
           visit == Visit(CouponUrl(element.href), net)
       IN  IF element.fault THEN NoCourse   \* caught at line 231
           ELSE [title |-> title,
                 description |-> description,
                 url |-> IF visit.udemy_url # None THEN visit.udemy_url
                         ELSE visit.coupon_url,
                 udemy_url |-> visit.udemy_url,
                 original_price |-> << "N/A" >>,
                 coupon_code |-> CouponCode(visit.udemy_url),
                 expiry_date |-> None,
                 category |-> categorize_course(title, description, CATEGORIES)]

\* the driver.get calls parse_course_element makes
DetailGets(element, net) ==
  IF element.heading = None \/ element.href = None \/ element.href = << >>
  THEN << >>
  ELSE Visit(CouponUrl(element.href), net).gets

(***************************************************************************)
(* utils.load_cache / save_cache and the cache operations of scrape_courses*)
(***************************************************************************)
EmptyDict == << >>

\* load_cache with a store file that is never read back
load_cache_fresh(file) == EmptyDict

\* load_cache: json.load of the file when it exists, {} otherwise.  The
\* document maps strings to strings, which json.dump and json.load keep.
load_cache(file) == IF file.exists THEN file.doc ELSE EmptyDict

\* save_cache writing only the entries of the current run
save_cache_new_only(dict, now) ==
  [exists |-> TRUE,
   doc |-> [u \in { v \in DOMAIN dict : dict[v] = now } |-> dict[u]]]

\* save_cache: the file is created or overwritten with the whole dict
save_cache(dict, now) == [exists |-> TRUE, doc |-> dict]

\* a membership test that lets every course through
isNew_always(c, dict) == TRUE

\* course['url'] not in self.cache  (line 123)
isNew(c, dict) == c.url \notin DOMAIN dict

\* an assignment that starts the dict afresh
record_evicting(dict, url, now) == [u \in { url } |-> now]

\* self.cache[course['url']] = datetime.now().isoformat()  (line 126)
record(dict, url, now) ==
  [u \in DOMAIN dict \cup { url } |-> IF u = url THEN now ELSE dict[u]]

\* an error path that hands back what was collected so far
ErrorReturnsCourses(found) == found

\* return []  (line 136)
ErrorReturn(found) == << >>

\* CouponScraper.cleanup: self.driver.quit()
cleanup(session) == "quit"

(***************************************************************************)
(* config.MESSAGE_TEMPLATE / COURSE_TEMPLATE, utils.format_whatsapp_message*)
(*                                                                         *)
(* A template is a sequence of literal pieces and replacement fields; a    *)
(* text is a sequence of pieces [kind, v].                                 *)
(***************************************************************************)
Lit(txt) == [kind |-> "lit", v |-> << txt >>]
Field(name) == [kind |-> "field", v |-> << name >>]

MESSAGE_TEMPLATE ==
  << Lit("New "), Field("category"), Lit(" Courses"), Lit("\n\n"),
     Field("courses"), Lit("\n\n"), Lit("More deals at: real.discount") >>

COURSE_TEMPLATE ==
  << Lit("\n"), Field("title"), Lit("\nOriginal Price: "),
     Field("original_price"), Lit("\nCoupon: "), Field("coupon_code"),
     Lit("\nExpires: "), Field("expiry_date"), Lit("\n"), Field("url"),
     Lit("\n") >>

MaxPerMessage == 10

FieldsOf(template) ==
  { template[i].v[1] : i \in { j \in DOMAIN template : template[j].kind = "field" } }

RECURSIVE Substitute(_, _, _)
Substitute(template, kwargs, i) ==
  IF i > Len(template) THEN << >>
  ELSE (IF template[i].kind = "field" THEN kwargs[template[i].v[1]]
        ELSE << template[i] >>)
       \o Substitute(template, kwargs, i + 1)

\* str.format(**kwargs): a replacement field that names no keyword argument
\* raises KeyError
Format(template, kwargs) ==
  IF FieldsOf(template) \subseteq DOMAIN kwargs
  THEN [ok |-> TRUE, text |-> Substitute(template, kwargs, 1)]
  ELSE [ok |-> FALSE, text |-> << >>]

\* the keyword arguments of lines 47-53
CourseKwargs(c) ==
  [title |-> << [kind |-> "title", v |-> c.title] >>,
   original_price |-> << [kind |-> "price", v |-> c.original_price] >>,
   coupon_code |-> << [kind |-> "coupon", v |-> c.coupon_code] >>,
   expiry_date |-> << [kind |-> "expiry", v |-> c.expiry_date] >>,
   url |-> << [kind |-> "url", v |-> c.url] >>]

\* '\n'.join(texts)
RECURSIVE Join(_)
Join(texts) ==
  IF texts = << >> THEN << >>
  ELSE IF Len(texts) = 1 THEN texts[1]
  ELSE texts[1] \o << Lit("\n") >> \o Join(Tail(texts))

Min(a, b) == IF a < b THEN a ELSE b

\* format_whatsapp_message: [ok, text]; ok = FALSE: an exception is raised
format_whatsapp_message(list, category, template) ==
  LET formatted_courses ==
        [i \in DOMAIN list |-> Format(template, CourseKwargs(list[i]))]
  IN  IF \E i \in DOMAIN list : ~formatted_courses[i].ok
      THEN [ok |-> FALSE, text |-> << >>]
      ELSE Format(template,
             [category |-> << [kind |-> "category",
                               v |-> << "title-cased", category >>] >>,
              courses |-> Join([i \in 1..Min(Len(list), MaxPerMessage) |->
                                  formatted_courses[i].text])])

\* the urls of the item bodies of a text, in the order they appear
UrlsOf(text) ==
  LET urls == SelectSeq(text, LAMBDA piece : piece.kind = "url")
  IN  [i \in DOMAIN urls |-> urls[i].v]

(***************************************************************************)
(* CouponScraper.process_and_send_courses                                  *)
(***************************************************************************)
\* the keys of categorized_courses, in insertion order (lines 256-261)
RECURSIVE CategoryOrder(_)
CategoryOrder(list) ==
  IF list = << >> THEN << >>
  ELSE LET front == CategoryOrder(SubSeq(list, 1, Len(list) - 1))
           category == list[Len(list)].category
       IN  IF category \in Range(front) THEN front ELSE Append(front, category)

\* categorized_courses[category]
CoursesOf(list, category) == SelectSeq(list, LAMBDA c : c.category = category)

\* The loop of lines 264-272 from the i-th category on.  raised: an
\* exception leaves the loop; log: the messages handed to
\* send_whatsapp_message, whose handler (line 246) swallows a delivery fault.
RECURSIVE SendLoop(_, _, _, _, _, _)
SendLoop(order, i, list, groups, failing, now) ==
  IF i > Len(order) THEN [raised |-> FALSE, log |-> << >>]
  ELSE IF order[i] \notin DOMAIN groups
  THEN SendLoop(order, i + 1, list, groups, failing, now)
  ELSE LET message == format_whatsapp_message(CoursesOf(list, order[i]),
                                              order[i], MESSAGE_TEMPLATE)
           rest == SendLoop(order, i + 1, list, groups, failing, now)
       IN  IF ~message.ok THEN [raised |-> TRUE, log |-> << >>]
           ELSE [raised |-> rest.raised,
                 log |-> << [run |-> now, category |-> order[i],
                             group_id |-> groups[order[i]],
                             text |-> message.text,
                             delivered |-> order[i] \notin failing] >>
                         \o rest.log]

\* self.group_ids after __init__ (lines 35-40): the categories whose
\* environment variable is set, each with the variable's value
GroupIds(environ) ==
  [c \in { CATEGORIES[i].name :
           i \in { j \in DOMAIN CATEGORIES : CATEGORIES[j].group_id \in environ } }
     |-> CHOOSE g \in environ :
           \E i \in DOMAIN CATEGORIES :
              CATEGORIES[i].name = c /\ CATEGORIES[i].group_id = g]

Envs == { {}, { "CYBERSEC_GROUP" } }

(***************************************************************************)
(* The process: __main__, scrape_courses, process_and_send_courses         *)
(***************************************************************************)
NoFile == [exists |-> FALSE, doc |-> EmptyDict]
NoPage == [listing |-> << >>, net |-> "ok"]

\* parse_course_element and its driver.get calls, for every element and net
ParseTable ==
  [e \in Elements |-> [n \in Nets |->
     [course |-> parse_course_element(e, n), gets |-> DetailGets(e, n)]]]

\* The categorizer and the composer on their own are at rest here.
CatIdle == catIn = [title |-> << >>, desc |-> << >>, rules |-> << >>]
           /\ catOut = "idle"
FmtIdle == fmtIn = << >> /\ fmtOut = [ok |-> FALSE, text |-> << >>, done |-> FALSE]

\* scraper = CouponScraper(), about to call process_and_send_courses
Construct(file) ==
  /\ pc' = "idle"
  /\ exit' = "none"
  /\ driver' = "open"
  /\ cache' = load_cache(file)
  /\ group_ids' = GroupIds(env)
  /\ world' = NoPage
  /\ idx' = 0
  /\ courses' = << >>
  /\ course' = NoCourse
  /\ gets' = << >>
  /\ snap' = [cache |-> load_cache(file), store |-> file]
  /\ writes' = 0

InitProcess ==
  /\ pc = "idle"
  /\ exit = "none"
  /\ driver = "open"
  /\ env \in Envs
  /\ store = NoFile
  /\ cache = load_cache(NoFile)
  /\ group_ids = GroupIds(env)
  /\ world = NoPage
  /\ idx = 0
  /\ courses = << >>
  /\ course = NoCourse
  /\ gets = << >>
  /\ sent = << >>
  /\ run = 0
  /\ scrape = "none"
  /\ snap = [cache |-> load_cache(NoFile), store |-> NoFile]
  /\ writes = 0
  /\ sameInput = FALSE

Init ==
  /\ InitProcess
  /\ script = NoPage
  /\ CatIdle
  /\ FmtIdle

\* scrape_courses, lines 92-116: the listing page is rendered and parsed,
\* and shows w
Render(w) ==
  /\ pc = "idle"
  /\ run < MaxRuns
  /\ world' = w
  /\ sameInput' = (w = script /\ (sameInput \/ scrape = "returned"))
  /\ pc' = "scrape"
  /\ run' = run + 1
  /\ scrape' = "running"
  /\ idx' = 0
  /\ courses' = << >>
  /\ course' = NoCourse
  /\ gets' = << >>
  /\ snap' = [cache |-> cache, store |-> store]
  /\ writes' = 0
  /\ UNCHANGED << exit, driver, env, cache, store, group_ids, sent, script,
                  catVars, fmtVars >>

StartRun == \E w \in Worlds : Render(w)

\* scrape_courses, lines 94-112 raising (driver.get(BASE_URL), the scroll
\* loop or page_source): the handler of line 134 returns []
RenderFailure ==
  /\ pc = "idle"
  /\ run < MaxRuns
  /\ pc' = "process"
  /\ run' = run + 1
  /\ scrape' = "RenderFailure"
  /\ idx' = 0
  /\ courses' = ErrorReturn(<< >>)
  /\ course' = NoCourse
  /\ gets' = << >>
  /\ snap' = [cache |-> cache, store |-> store]
  /\ writes' = 0
  /\ UNCHANGED << exit, driver, env, cache, store, group_ids, world, sent,
                  script, sameInput, catVars, fmtVars >>

\* scrape_courses, lines 118-128: one turn of the loop over the <li>s
ScrapeElement ==
  /\ pc = "scrape"
  /\ idx < Len(world.listing)
  /\ LET element == world.listing[idx + 1]
         parsed == IF IsCourseElement(element)
                   THEN ParseTable[element][world.net].course
                   ELSE NoCourse
     IN  /\ course' = parsed
         /\ gets' = IF IsCourseElement(element)
                    THEN ParseTable[element][world.net].gets ELSE << >>
         /\ IF parsed # NoCourse /\ isNew(parsed, cache)
            THEN /\ courses' = Append(courses, parsed)
                 /\ cache' = record(cache, parsed.url, run)
            ELSE UNCHANGED << courses, cache >>
  /\ idx' = idx + 1
  /\ UNCHANGED << pc, exit, driver, env, store, group_ids, world, sent, run,
                  scrape, snap, writes, script, sameInput, catVars, fmtVars >>

\* scrape_courses, lines 130-132: save_cache and return courses
FinishScrape ==
  /\ pc = "scrape"
  /\ idx = Len(world.listing)
  /\ store' = save_cache(cache, run)
  /\ writes' = writes + 1
  /\ scrape' = "returned"
  /\ pc' = "process"
  /\ UNCHANGED << exit, driver, env, cache, group_ids, world, idx, courses,
                  course, gets, sent, run, snap, script, sameInput,
                  catVars, fmtVars >>

\* scrape_courses, line 131 raising before anything is written (os.makedirs
\* or open fails): the handler of line 134 returns []
SaveFailure ==
  /\ pc = "scrape"
  /\ idx = Len(world.listing)
  /\ scrape' = "SaveFailure"
  /\ courses' = ErrorReturn(courses)
  /\ pc' = "process"
  /\ UNCHANGED << exit, driver, env, cache, store, group_ids, world, idx,
                  course, gets, sent, run, snap, writes, script, sameInput,
                  catVars, fmtVars >>

\* process_and_send_courses, lines 252-272, with what __main__ (or
\* schedule.run_pending) does with an exception that leaves it: only
\* KeyboardInterrupt is handled, and the finally clause calls cleanup.
\* On a normal return the locals of the run are gone.
ProcessAndSend ==
  /\ pc = "process"
  /\ \E failing \in SUBSET Range(CategoryOrder(courses)) :
       LET result == SendLoop(CategoryOrder(courses), 1, courses, group_ids,
                              failing, run)
       IN  IF courses # << >> /\ result.raised
           THEN /\ pc' = "exited"
                /\ exit' = "KeyError"
                /\ driver' = cleanup(driver)
                /\ sent' = sent \o result.log
                /\ UNCHANGED << world, idx, courses, course, gets, snap,
                                writes >>
           ELSE /\ pc' = "idle"
                /\ sent' = IF courses = << >> THEN sent
                           ELSE sent \o result.log
                /\ world' = NoPage
                /\ idx' = 0
                /\ courses' = << >>
                /\ course' = NoCourse
                /\ gets' = << >>
                /\ snap' = [cache |-> cache, store |-> store]
                /\ writes' = 0
                /\ UNCHANGED << exit, driver >>
  /\ UNCHANGED << env, cache, store, group_ids, run, scrape, script,
                  sameInput, catVars, fmtVars >>

\* KeyboardInterrupt, at any point of a run or between two runs: no handler
\* of the run catches it (they catch Exception); __main__ prints and the
\* finally clause calls cleanup.
Interrupt ==
  /\ pc \in { "idle", "scrape", "process" }
  /\ pc' = "exited"
  /\ exit' = "interrupt"
  /\ driver' = cleanup(driver)
  /\ UNCHANGED << env, cache, store, group_ids, world, idx, courses, course,
                  gets, sent, run, scrape, snap, writes, script, sameInput,
                  catVars, fmtVars >>

\* The program is started again: CouponScraper.__init__
Restart ==
  /\ pc = "exited"
  /\ Construct(store)
  /\ UNCHANGED << env, store, sent, run, scrape, script, sameInput,
                  catVars, fmtVars >>

Next ==
  \/ StartRun
  \/ RenderFailure
  \/ ScrapeElement
  \/ FinishScrape
  \/ SaveFailure
  \/ ProcessAndSend
  \/ Interrupt
  \/ Restart

Spec == Init /\ [][Next]_vars

(***************************************************************************)
(* The same process in front of a site that shows the same pages at every  *)
(* run.                                                                    *)
(***************************************************************************)
InitRerun ==
  /\ InitProcess
  /\ script \in Worlds
  /\ CatIdle
  /\ FmtIdle

Rerun == Render(script)

NextRerun ==
  \/ Rerun
  \/ RenderFailure
  \/ ScrapeElement
  \/ FinishScrape
  \/ SaveFailure
  \/ ProcessAndSend
  \/ Interrupt
  \/ Restart

SpecRerun == InitRerun /\ [][NextRerun]_vars

(***************************************************************************)
(* The categorizer on its own: a rule set is chosen (any ordered selection *)
(* of three rules), a title and a description are typed in, and            *)
(* categorize_course is applied.                                           *)
(***************************************************************************)
MaxTitle == 3
MaxDesc == 1

TestChars == { "a", "b", "B", " " }

RuleA == [name |-> "A", group_id |-> "A_GROUP", keywords |-> << <<"a","b">> >>]
RuleB == [name |-> "B", group_id |-> "B_GROUP", keywords |-> << <<"b">> >>]
RuleC == [name |-> "C", group_id |-> "C_GROUP",
          keywords |-> << <<"a"," ","a">>, <<"b","a">> >>]
TestRules == { RuleA, RuleB, RuleC }

\* every ordered rule set without a repeated name (the keys of a dict)
TestRuleSets ==
  { << >> } \cup { << r >> : r \in TestRules }
  \cup { rs \in [1..2 -> TestRules] : Cardinality(Range(rs)) = 2 }
  \cup { rs \in [1..3 -> TestRules] : Cardinality(Range(rs)) = 3 }

InitCat ==
  /\ InitProcess
  /\ env = {}
  /\ script = NoPage
  /\ FmtIdle
  /\ catIn \in { [title |-> << >>, desc |-> << >>, rules |-> rs] :
                 rs \in TestRuleSets }
  /\ catOut = "pending"

TypeTitle ==
  /\ catOut = "pending"
  /\ Len(catIn.title) < MaxTitle
  /\ \E c \in TestChars : catIn' = [catIn EXCEPT !.title = Append(@, c)]
  /\ UNCHANGED << catOut, fmtVars, pipeVars >>

TypeDesc ==
  /\ catOut = "pending"
  /\ Len(catIn.desc) < MaxDesc
  /\ \E c \in TestChars : catIn' = [catIn EXCEPT !.desc = Append(@, c)]
  /\ UNCHANGED << catOut, fmtVars, pipeVars >>

Categorize ==
  /\ catOut = "pending"
  /\ catOut' = categorize_course(catIn.title, catIn.desc, catIn.rules)
  /\ UNCHANGED << catIn, fmtVars, pipeVars >>

NextCat == TypeTitle \/ TypeDesc \/ Categorize

SpecCat == InitCat /\ [][NextCat]_vars

(***************************************************************************)
(* The composer on its own: a list of courses of one category is built and *)
(* format_whatsapp_message is applied with MESSAGE_TEMPLATE, as            *)
(* process_and_send_courses applies it.                                    *)
(***************************************************************************)
MaxBatch == 11

\* two courses of the category cybersecurity, as parse_course_element
\* returns them
SampleCourses == { ParseTable[LiHack][n].course : n \in { "ok", "timeout" } }

InitFmt ==
  /\ InitProcess
  /\ env = {}
  /\ script = NoPage
  /\ CatIdle
  /\ FmtIdle

AddCourse ==
  /\ ~fmtOut.done
  /\ Len(fmtIn) < MaxBatch
  /\ \E c \in SampleCourses : fmtIn' = Append(fmtIn, c)
  /\ UNCHANGED << fmtOut, catVars, pipeVars >>

Compose ==
  /\ ~fmtOut.done
  /\ LET message == format_whatsapp_message(fmtIn, "cybersecurity",
                                            MESSAGE_TEMPLATE)
     IN  fmtOut' = [ok |-> message.ok, text |-> message.text, done |-> TRUE]
  /\ UNCHANGED << fmtIn, catVars, pipeVars >>

NextFmt == AddCourse \/ Compose

SpecFmt == InitFmt /\ [][NextFmt]_vars

(***************************************************************************)
(* Properties                                                              *)
(***************************************************************************)
\* the messages handed to the notifier in run r
SentIn(log, r) == { log[i] : i \in { j \in DOMAIN log : log[j].run = r } }

\* the urls ever included in a message handed to the notifier
Surfaced == UNION { Range(UrlsOf(sent[i].text)) : i \in DOMAIN sent }

\* C1 (SpecRerun): when a run renders the pages that an earlier run rendered
\* and that run's scrape_courses returned normally, scrape_courses finds no
\* new course: every url it produces was a key of the cache when the run
\* started, in the same process as well as in one started afterwards.
C1_Idempotent ==
  sameInput =>
    /\ courses = << >>
    /\ course # NoCourse => course.url \in DOMAIN snap.cache

\* A second run over the same pages has produced a url and returned; the url
\* is of a category with a destination, so the run that found it new ended
\* the process, and this run is one of a process started afterwards.
C1_Witness ==
  /\ sameInput
  /\ pc = "process"
  /\ scrape = "returned"
  /\ course # NoCourse
  /\ course.category \in DOMAIN group_ids

\* C2, as claimed: between runs every key of the cache and of the store has
\* been included in a message handed to the notifier.
C2_AlreadySurfaced ==
  pc = "idle" => (DOMAIN cache \cup DOMAIN store.doc) \subseteq Surfaced

\* C2, amended: a url that is a key of the cache or of the store is never
\* returned as a new course, and a course returned as new is a key from then
\* on; while the process lives, every key of the store is a key of the cache.
C2_NeverReEmitted ==
  [][ /\ Len(courses') > Len(courses) =>
           LET c == courses'[Len(courses')]
           IN  /\ c.url \notin DOMAIN cache \cup DOMAIN store.doc
               /\ c.url \in DOMAIN cache'
      /\ pc' # "exited" => DOMAIN store'.doc \subseteq DOMAIN cache'
    ]_vars

\* A course whose url was a key when the run started has been parsed, and
\* nothing was returned as new.
C2_Witness ==
  /\ pc = "scrape"
  /\ course # NoCourse
  /\ course.url \in DOMAIN snap.cache
  /\ courses = << >>

\* C3, as claimed: no failure other than an interrupt ends the process.
C3_Contained == pc = "exited" => exit = "interrupt"

\* C4, as claimed (SpecFmt): for a non-empty list the composer returns a text
\* whose item bodies are the first min(n, 10) courses, in order.
C4_Truncation ==
  (fmtOut.done /\ fmtIn # << >>) =>
    /\ fmtOut.ok
    /\ UrlsOf(fmtOut.text) =
         [i \in 1..Min(Len(fmtIn), MaxPerMessage) |-> fmtIn[i].url]

\* the www-prefixed form of the host of a url
WwwForm(url) == << url[1], "www." >> \o SubSeq(url, 2, Len(url))

\* C5, as claimed: after a DNS failure on the coupon url there is exactly one
\* more driver.get, on the www-prefixed form; if it fails too the course is
\* returned with the url of the listing and no coupon code.
C5_RetryAndFallback ==
  (pc = "scrape" /\ idx > 0) =>
    LET element == world.listing[idx]
        detailUrl == CouponUrl(element.href)
    IN  (/\ IsCourseElement(element)
         /\ ~element.fault
         /\ Get(detailUrl, world.net) = "ERR_NAME_NOT_RESOLVED") =>
          /\ gets = << detailUrl, WwwForm(detailUrl) >>
          /\ Get(gets[2], world.net) # "ok" =>
               /\ course # NoCourse
               /\ course.url = detailUrl
               /\ course.coupon_code = None

Blob(in) == Lower(in.title \o << " " >> \o in.desc)

\* the rules, by position, with a keyword that is a substring of the blob
FirstPass(in) ==
  { i \in DOMAIN in.rules :
      \E k \in Range(in.rules[i].keywords) : IsSubstring(k, Blob(in)) }

\* the rules, by position, with a keyword that holds a token of the blob
SecondPass(in) ==
  { i \in DOMAIN in.rules :
      \E k \in Range(in.rules[i].keywords) :
         \E t \in Range(Split(Blob(in))) : IsSubstring(t, k) }

Least(S) == CHOOSE i \in S : \A j \in S : i <= j

\* C7 (SpecCat): the result is the first rule in declared order with a keyword
\* in the blob; failing that, the first rule with a keyword that holds a token
\* of the blob; failing that, "other".
C7_Categorizer ==
  catOut # "pending" =>
    catOut = IF FirstPass(catIn) # {}
             THEN catIn.rules[Least(FirstPass(catIn))].name
             ELSE IF SecondPass(catIn) # {}
             THEN catIn.rules[Least(SecondPass(catIn))].name
             ELSE "other"

\* A keyword match of the second rule has won over a token match of the first.
C7_Witness ==
  /\ catOut = "B"
  /\ Len(catIn.rules) = 3
  /\ catIn.rules[1] = RuleA
  /\ 1 \in SecondPass(catIn)
  /\ FirstPass(catIn) = { 2 }

ScrapeFailed == scrape \in { "RenderFailure", "SaveFailure" }

C10_Destinations ==
  [][ (pc = "process" /\ pc' # "process" /\ exit' # "interrupt") =>
        \A i \in DOMAIN courses :
          LET c == courses[i]
          IN  IF c.category \in DOMAIN group_ids
              THEN \E m \in SentIn(sent', run) : m.category = c.category
              ELSE /\ \A m \in SentIn(sent', run) : m.category # c.category
                   /\ c.url \in DOMAIN cache
                   /\ c.url \in DOMAIN store.doc
    ]_vars

====
